---- MODULE Spec2Model ----
(***************************************************************************)
(* Model of src/app.py: the retrying HTTP session (get_session), the       *)
(* memoized API caller (challenge_premise) and the button handler of the   *)
(* Streamlit page.                                                         *)
(*                                                                         *)
(* One button press is modelled as                                         *)
(*   Trigger  - the handler up to the point where session.post starts,     *)
(*   Attempt  - one HTTP request of session.post, the endpoint's answer    *)
(*              and the retry decision of the mounted Retry policy,        *)
(*   Finish   - the rest of challenge_premise (raise_for_status, parsing,  *)
(*              citation extraction, the except clauses, memoization) and  *)
(*              the rest of the handler (rendering).                       *)
(* Rerun is a script run in which the button was not pressed.              *)
(***************************************************************************)
EXTENDS Integers, Sequences, FiniteSets, TLC

\* ------------------------------------------------------------------------
\* Bounds of the model.
\* ------------------------------------------------------------------------
\* Longest groundingAttributions list the endpoint sends.
MaxAttrs == 2

\* ------------------------------------------------------------------------
\* get_session: Retry(total=5, backoff_factor=2, status_forcelist=[...],
\*                    allowed_methods={"POST"})
\* ------------------------------------------------------------------------
\* A policy that allows one retry fewer.
total_retries_one_less == 5 - 1
total_retries == 5
backoff_factor == 2
\* A forcelist that also forces 400.
status_forcelist_with_400 == {400, 429, 500, 502, 503, 504}
status_forcelist == {429, 500, 502, 503, 504}
\* Defaults of Retry that the call leaves in place.
backoff_max == 120
RETRY_AFTER_STATUS_CODES == {413, 429, 503}

\* ------------------------------------------------------------------------
\* Python values.
\* ------------------------------------------------------------------------
\* The empty dict {}.
EmptyObj == [k \in {} |-> TRUE]

\* dict.get(key, default)
Get(d, k, default) == IF k \in DOMAIN d THEN d[k] ELSE default

\* The values json.loads can produce for the texts of the model.
PyNone == [py |-> "None"]
PyDict(d) == [py |-> "dict", d |-> d]
PyList(items) == [py |-> "list", items |-> items]

\* Python truthiness of such a value (if result:).
Truthy(v) ==
    CASE v.py = "None" -> FALSE
      [] v.py = "dict" -> DOMAIN v.d # {}
      [] v.py = "list" -> Len(v.items) > 0

\* ------------------------------------------------------------------------
\* What the endpoint can answer.
\* ------------------------------------------------------------------------
\* The statuses of the model: success, a 3xx without Location, client errors
\* outside status_forcelist, and members of status_forcelist.
Statuses == {200, 304, 400, 413, 429, 500, 503}

\* The Retry-After header of a response: absent, or a number of seconds.
RetryAfterHeaders == {<<>>, <<3>>}

\* Texts of candidates[0].content.parts[0].text.
FullText == "{\"summary\": \"s\", \"counterArguments\": [\"c1\"], \"supportingEvidence\": [\"e1\"], \"conclusion\": \"k\"}"
PartialText == "{\"summary\": \"s\"}"
Texts == {FullText, PartialText, "{}", "null", "[1]", "not json"}

\* A parser that reads every text it does not know as the empty object.
json_loads_lenient(t) ==
    CASE t = FullText ->
            [ok |-> TRUE,
             val |-> PyDict([summary |-> "s", counterArguments |-> <<"c1">>,
                             supportingEvidence |-> <<"e1">>, conclusion |-> "k"])]
      [] t = PartialText -> [ok |-> TRUE, val |-> PyDict([summary |-> "s"])]
      [] t = "null" -> [ok |-> TRUE, val |-> PyNone]
      [] t = "[1]" -> [ok |-> TRUE, val |-> PyList(<<1>>)]
      [] OTHER -> [ok |-> TRUE, val |-> PyDict(EmptyObj)]

\* json.loads(json_text): ok = FALSE stands for json.JSONDecodeError.
json_loads(t) ==
    CASE t = FullText ->
            [ok |-> TRUE,
             val |-> PyDict([summary |-> "s", counterArguments |-> <<"c1">>,
                             supportingEvidence |-> <<"e1">>, conclusion |-> "k"])]
      [] t = PartialText -> [ok |-> TRUE, val |-> PyDict([summary |-> "s"])]
      [] t = "{}" -> [ok |-> TRUE, val |-> PyDict(EmptyObj)]
      [] t = "null" -> [ok |-> TRUE, val |-> PyNone]
      [] t = "[1]" -> [ok |-> TRUE, val |-> PyList(<<1>>)]
      [] OTHER -> [ok |-> FALSE, val |-> PyNone]

\* Grounding attributions: two complete web entries, one without uri, one
\* without title, one without web.
Attr1 == [web |-> [title |-> "t1", uri |-> "u1"]]
Attr2 == [web |-> [title |-> "t2", uri |-> "u2"]]
AttrNoUri == [web |-> [title |-> "t3"]]
AttrNoTitle == [web |-> [uri |-> "u4"]]
AttrNoWeb == [retrievedContext |-> [uri |-> "u5"]]
Attrs == {Attr1, Attr2, AttrNoUri, AttrNoTitle, AttrNoWeb}

SeqsUpTo(S, n) == UNION {[1..m -> S] : m \in 0..n}

GroundingMetadatas ==
    {EmptyObj} \cup {[groundingAttributions |-> as] : as \in SeqsUpTo(Attrs, MaxAttrs)}

PartObjs == {EmptyObj} \cup {[text |-> t] : t \in Texts}
PartLists == {<<>>} \cup {<<p>> : p \in PartObjs}
ContentObjs == {EmptyObj} \cup {[parts |-> ps] : ps \in PartLists}

CandidateObjs ==
    {EmptyObj}
    \cup {[content |-> c] : c \in ContentObjs}
    \cup {[groundingMetadata |-> g] : g \in GroundingMetadatas}
    \cup {[content |-> c, groundingMetadata |-> g] :
             c \in ContentObjs, g \in GroundingMetadatas}

DataObjs == {EmptyObj, [candidates |-> <<>>]} \cup {[candidates |-> <<c>>] : c \in CandidateObjs}

\* A response body: not JSON at all, a JSON array, or a JSON object.
Bodies ==
    {[kind |-> "notjson", data |-> EmptyObj], [kind |-> "array", data |-> EmptyObj]}
    \cup {[kind |-> "object", data |-> d] : d \in DataObjs}

NoBody == [kind |-> "notjson", data |-> EmptyObj]

\* What one request can end with: a transport error or a response.
TransportError == [kind |-> "error", status |-> 0, retry_after |-> <<>>]
Answers ==
    {TransportError}
    \cup {[kind |-> "response", status |-> s, retry_after |-> ra] :
             s \in Statuses, ra \in RetryAfterHeaders}

\* The text area's content.
Premises == {"", "p", "q"}

\* ------------------------------------------------------------------------
\* The Retry policy as urllib3 applies it to the session's POST.
\* ------------------------------------------------------------------------
Min(a, b) == IF a < b THEN a ELSE b

\* Retry.get_backoff_time after n recorded failures: nothing before the second
\* failure, then backoff_factor * 2^(n-1), capped.
get_backoff_time(n) ==
    IF n <= 1 THEN 0 ELSE Min(backoff_max, backoff_factor * 2^(n - 1))

\* Retry.is_retry for a POST response: the status is forced, or retries are
\* left and the response carries Retry-After on 413/429/503.
is_retry(status, retry_after, total_left) ==
    \/ status \in status_forcelist
    \/ /\ total_left # 0
       /\ Len(retry_after) > 0
       /\ status \in RETRY_AFTER_STATUS_CODES

\* Retry.sleep: a positive Retry-After of the response wins over the backoff.
sleep_time(a, n) ==
    IF a.kind = "response" /\ Len(a.retry_after) > 0 /\ a.retry_after[1] > 0
    THEN a.retry_after[1]
    ELSE get_backoff_time(n)

\* Whether the policy retries after the answer a: transport errors count
\* against total like forced statuses (POST is in allowed_methods).
retries_after(a, total_left) ==
    \/ a.kind = "error"
    \/ is_retry(a.status, a.retry_after, total_left)

\* What session.post raises once total is used up: requests turns the
\* MaxRetryError into RetryError (status responses; raise_on_status is left
\* at its default) or ConnectionError (transport errors).
exhausted_exception(a) ==
    [kind |-> IF a.kind = "error" THEN "ConnectionError" ELSE "RetryError",
     status |-> a.status, retry_after |-> a.retry_after]

\* ------------------------------------------------------------------------
\* challenge_premise, lines 96-133.
\* ------------------------------------------------------------------------
Returned(result, sources) ==
    [exc |-> "", status |-> 0, result |-> result, sources |-> sources]
Raised(e, status) ==
    [exc |-> e, status |-> status, result |-> PyNone, sources |-> <<>>]

\* response.raise_for_status()
raises_for_status(status) == 400 <= status /\ status < 600

\* The filter of the list comprehension, lines 122-123.
keeps_attr(attr) == "web" \in DOMAIN attr /\ "title" \in DOMAIN attr["web"]

\* The list comprehension of lines 117-124: exc is "KeyError" when a kept
\* attribution has no 'uri'.
RECURSIVE source_list(_)
source_list(attrs) ==
    IF Len(attrs) = 0 THEN [exc |-> "", val |-> <<>>]
    ELSE LET attr == Head(attrs)
             keep == keeps_attr(attr)
         IN  IF keep /\ "uri" \notin DOMAIN attr["web"]
             THEN [exc |-> "KeyError", val |-> <<>>]
             ELSE LET rest == source_list(Tail(attrs))
                  IN  IF rest.exc # "" THEN rest
                      ELSE [exc |-> "",
                            val |-> IF keep
                                    THEN <<[title |-> attr["web"]["title"],
                                            uri |-> attr["web"]["uri"]]>> \o rest.val
                                    ELSE rest.val]

\* Lines 114-124: the citations of the first candidate.
extract_sources(cand) ==
    LET grounding_metadata == Get(cand, "groundingMetadata", EmptyObj)
        attributions == Get(grounding_metadata, "groundingAttributions", <<>>)
    IN  IF DOMAIN grounding_metadata # {} /\ Len(attributions) > 0
        THEN source_list(attributions)
        ELSE [exc |-> "", val |-> <<>>]

\* Lines 104-126 for a JSON object: the text chain, json.loads, citations.
extract(data) ==
    LET candidates == Get(data, "candidates", <<EmptyObj>>)
    IN  IF Len(candidates) = 0 THEN Raised("IndexError", 0)
        ELSE
        LET cand == candidates[1]
            parts == Get(Get(cand, "content", EmptyObj), "parts", <<EmptyObj>>)
        IN  IF Len(parts) = 0 THEN Raised("IndexError", 0)
            ELSE
            LET json_text == Get(parts[1], "text", "{}")
                parsed_output == json_loads(json_text)
                sources == extract_sources(cand)
            IN  IF ~parsed_output.ok THEN Raised("JSONDecodeError", 0)
                ELSE IF sources.exc # "" THEN Raised(sources.exc, 0)
                ELSE Returned(parsed_output.val, sources.val)

\* The try block, lines 97-126, for the outcome of session.post and the body
\* that response.json() reads.
try_block(out, body) ==
    IF out.kind # "response" THEN Raised(out.kind, out.status)
    ELSE IF raises_for_status(out.status) THEN Raised("HTTPError", out.status)
    ELSE IF body.kind = "notjson" THEN Raised("JSONDecodeError", 0)
    ELSE IF body.kind = "array" THEN Raised("AttributeError", 0)
    ELSE extract(body.data)

\* What a clause of the try statement catches.
except_HTTPError(e) == e = "HTTPError"
\* A last clause that catches only ValueError and its subclasses.
except_ValueError(e) == e = "JSONDecodeError"
except_Exception(e) == e # ""

HttpErrorMsg(status) ==
    [el |-> "error", txt |-> "HTTP Error: Could not reach the AI service.", code |-> status]
UnexpectedErrorMsg ==
    [el |-> "error", txt |-> "An unexpected error occurred", code |-> 0]

\* challenge_premise's body: what it returns, the st.error it emits, and
\* whether an exception leaves it.
challenge_premise(out, body) ==
    LET r == try_block(out, body)
    IN  IF r.exc = ""
        THEN [result |-> r.result, sources |-> r.sources, errors |-> <<>>, raised |-> FALSE]
        ELSE IF except_HTTPError(r.exc)
        THEN [result |-> PyNone, sources |-> <<>>,
              errors |-> <<HttpErrorMsg(r.status)>>, raised |-> FALSE]
        ELSE IF except_Exception(r.exc)
        THEN [result |-> PyNone, sources |-> <<>>,
              errors |-> <<UnexpectedErrorMsg>>, raised |-> FALSE]
        ELSE [result |-> PyNone, sources |-> <<>>, errors |-> <<>>, raised |-> TRUE]

\* Whether the call reads the response body (reaches response.json()).
reads_body(out) == out.kind = "response" /\ ~raises_for_status(out.status)

\* ------------------------------------------------------------------------
\* The button handler, lines 210-265.
\* ------------------------------------------------------------------------
DeploymentErrorMsg ==
    [el |-> "error", txt |-> "An unexpected deployment error occurred", code |-> 0]
WarningMsg ==
    [el |-> "warning", txt |-> "Please enter a premise to begin the analysis.", code |-> 0]
El(el, txt) == [el |-> el, txt |-> txt, code |-> 0]

\* Lines 220-260 for a dict result.
render_analysis(d, sources) ==
    <<El("subheader", Get(d, "summary", "Summary not available")),
      IF Len(Get(d, "counterArguments", <<>>)) > 0
      THEN El("ul", "counterArguments")
      ELSE El("write", "No counter-arguments were generated."),
      IF Len(Get(d, "supportingEvidence", <<>>)) > 0
      THEN El("ul", "supportingEvidence")
      ELSE El("write", "No supporting evidence was generated."),
      El("write", Get(d, "conclusion", "Conclusion not available."))>>
    \o (IF Len(sources) > 0 THEN <<El("markdown", "source_links")>> ELSE <<>>)

\* Whether the handler enters the rendering branch (line 219).
shows_result(result) == Truthy(result)

\* Lines 217-263 after challenge_premise came back with r: an exception from
\* the call or from result.get on a non-dict ends in the handler's except.
render(r) ==
    IF r.raised THEN <<DeploymentErrorMsg>>
    ELSE IF shows_result(r.result)
    THEN IF r.result.py = "dict"
         THEN render_analysis(r.result.d, r.sources)
         ELSE <<DeploymentErrorMsg>>
    ELSE <<>>

\* A clear that leaves the entries in place.
cache_keep(c) == c

\* st.cache_data.clear()
cache_clear(c) == EmptyObj

\* st.cache_data stores the return value and the elements the call emitted.
cache_store(c, p, r) ==
    [k \in DOMAIN c \cup {p} |->
        IF k = p THEN [result |-> r.result, sources |-> r.sources, errors |-> r.errors]
        ELSE c[k]]

\* A handler that does not test the premise.
premise_any(p) == TRUE

\* Line 211: if premise
premise_given(p) == p # ""

\* ------------------------------------------------------------------------
\* State.
\* ------------------------------------------------------------------------
VARIABLES
    pc,        \* "idle": script run over; "post": inside session.post; "handle": post over
    button,    \* st.button's value in the current script run
    premise,   \* the text area's content in the current script run
    cache,     \* st.cache_data of challenge_premise: premise -> cached entry
    cleared,   \* the premises whose entries the current run's cache clear dropped
    called,    \* challenge_premise's body ran in the current script run
    total,     \* retries the Retry of the call's session has left
    history,   \* number of failures that Retry has recorded
    requests,  \* HTTP requests sent in the current script run
    delays,    \* the pauses the Retry made between the requests of the post
    seen,      \* the answers the Retry recorded as failures
    outcome,   \* what session.post ended with
    body,      \* the body response.json() read
    result,    \* what challenge_premise returned to the handler
    sources,
    errors,    \* the st.error elements of challenge_premise
    raised,    \* an exception left challenge_premise
    shown      \* the elements the current script run put on the page

vars == <<pc, button, premise, cache, cleared, called, total, history, requests, delays,
          seen, outcome, body, result, sources, errors, raised, shown>>

NoOutcome == [kind |-> "none", status |-> 0, retry_after |-> <<>>]

Init ==
    /\ pc = "idle"
    /\ button = FALSE
    /\ premise = ""
    /\ cache = EmptyObj
    /\ cleared = {}
    /\ called = FALSE
    /\ total = total_retries
    /\ history = 0
    /\ requests = 0
    /\ delays = <<>>
    /\ seen = {}
    /\ outcome = NoOutcome
    /\ body = NoBody
    /\ result = PyNone
    /\ sources = <<>>
    /\ errors = <<>>
    /\ raised = FALSE
    /\ shown = <<>>

\* What every script run starts from: the page and the locals are rebuilt.
FreshRun ==
    /\ called' = FALSE
    /\ total' = total_retries
    /\ history' = 0
    /\ requests' = 0
    /\ delays' = <<>>
    /\ seen' = {}
    /\ outcome' = NoOutcome
    /\ body' = NoBody
    /\ result' = PyNone
    /\ sources' = <<>>
    /\ errors' = <<>>
    /\ raised' = FALSE

\* A script run without a button press (the text area was edited).
Rerun(p) ==
    /\ pc = "idle"
    /\ button' = FALSE
    /\ premise' = p
    /\ pc' = "idle"
    /\ shown' = <<>>
    /\ cache' = cache
    /\ cleared' = {}
    /\ FreshRun

\* The button is pressed with an empty premise: lines 210-211, 264-265.
TriggerEmpty(p) ==
    /\ pc = "idle"
    /\ ~premise_given(p)
    /\ button' = TRUE
    /\ premise' = p
    /\ pc' = "idle"
    /\ shown' = <<WarningMsg>>
    /\ cache' = cache
    /\ cleared' = {}
    /\ FreshRun

\* The button is pressed with a premise: lines 210-217 up to session.post.
\* The memoized call returns the cached entry, replaying its elements, when
\* the cleared cache still has one; otherwise the body of the function runs.
TriggerCall(p) ==
    /\ pc = "idle"
    /\ premise_given(p)
    /\ button' = TRUE
    /\ premise' = p
    /\ cache' = cache_clear(cache)
    /\ cleared' = DOMAIN cache \ DOMAIN cache'
    /\ total' = total_retries
    /\ history' = 0
    /\ requests' = 0
    /\ delays' = <<>>
    /\ seen' = {}
    /\ outcome' = NoOutcome
    /\ body' = NoBody
    /\ raised' = FALSE
    /\ IF p \in DOMAIN cache'
       THEN /\ called' = FALSE
            /\ result' = cache'[p].result
            /\ sources' = cache'[p].sources
            /\ errors' = cache'[p].errors
            /\ shown' = cache'[p].errors
                        \o render([result |-> cache'[p].result,
                                   sources |-> cache'[p].sources, raised |-> FALSE])
            /\ pc' = "idle"
       ELSE /\ called' = TRUE
            /\ result' = PyNone
            /\ sources' = <<>>
            /\ errors' = <<>>
            /\ shown' = <<>>
            /\ pc' = "post"

\* One request of session.post (line 97), the answer a, and the Retry's step.
\* A response that is not retried is returned and the Retry's record ends
\* with the post; when total is used up the record stays with the exception
\* until the call is over.
Attempt(a) ==
    /\ pc = "post"
    /\ requests' = requests + 1
    /\ seen' = IF retries_after(a, total) THEN seen \cup {a} ELSE {}
    /\ IF retries_after(a, total)
       THEN /\ total' = total - 1
            /\ history' = history + 1
            /\ IF total' < 0
               THEN /\ outcome' = exhausted_exception(a)
                    /\ delays' = delays
                    /\ pc' = "handle"
               ELSE /\ outcome' = outcome
                    /\ delays' = Append(delays, sleep_time(a, history'))
                    /\ pc' = "post"
       ELSE /\ outcome' = a
            /\ pc' = "handle"
            /\ total' = total_retries
            /\ history' = 0
            /\ delays' = <<>>
    /\ UNCHANGED <<button, premise, cache, cleared, called, body, result, sources,
                   errors, raised, shown>>

\* Lines 102-133 and 219-263: the rest of challenge_premise with the body b,
\* the memoization of what it returned, and the rendering.
Finish(b) ==
    /\ pc = "handle"
    /\ IF reads_body(outcome) THEN TRUE ELSE b = NoBody
    /\ LET r == challenge_premise(outcome, b)
       IN  /\ body' = b
           /\ result' = r.result
           /\ sources' = r.sources
           /\ errors' = r.errors
           /\ raised' = r.raised
           /\ cache' = IF r.raised THEN cache ELSE cache_store(cache, premise, r)
           /\ shown' = r.errors \o render(r)
    /\ pc' = "idle"
    /\ UNCHANGED <<button, premise, cleared, called, total, history, requests,
                   delays, seen, outcome>>

Next ==
    \/ \E p \in Premises : Rerun(p)
    \/ \E p \in Premises : TriggerEmpty(p)
    \/ \E p \in Premises : TriggerCall(p)
    \/ \E a \in Answers : Attempt(a)
    \/ \E b \in Bodies : Finish(b)

Spec == Init /\ [][Next]_vars

\* ------------------------------------------------------------------------
\* Vocabulary of the properties.
\* ------------------------------------------------------------------------
\* The call of the current button press is over.
CallDone == pc = "idle" /\ button /\ called

Is2xx(status) == 200 <= status /\ status < 300

\* The statuses the claims call retryable.
RetryableSet == {429, 500, 502, 503, 504}

\* session.post returned a 2xx response, whose body the call read.
Got2xx == outcome.kind = "response" /\ Is2xx(outcome.status)

\* Every link of candidates[0].content.parts[0].text is there.
HasText(data) ==
    /\ "candidates" \in DOMAIN data
    /\ Len(data["candidates"]) > 0
    /\ "content" \in DOMAIN data["candidates"][1]
    /\ "parts" \in DOMAIN data["candidates"][1]["content"]
    /\ Len(data["candidates"][1]["content"]["parts"]) > 0
    /\ "text" \in DOMAIN data["candidates"][1]["content"]["parts"][1]

TextOf(data) == data["candidates"][1]["content"]["parts"][1]["text"]

\* The grounding attributions of the first candidate, empty when absent.
AttributionsOf(data) ==
    IF "candidates" \in DOMAIN data /\ Len(data["candidates"]) > 0
    THEN Get(Get(data["candidates"][1], "groundingMetadata", EmptyObj),
             "groundingAttributions", <<>>)
    ELSE <<>>

\* An attribution with a web entry that has both a title and a uri.
Complete(attr) ==
    /\ "web" \in DOMAIN attr
    /\ "title" \in DOMAIN attr["web"]
    /\ "uri" \in DOMAIN attr["web"]

\* One {title, uri} entry, in order, for every complete attribution.
ExpectedCitations(attrs) ==
    LET kept == SelectSeq(attrs, Complete)
    IN  [i \in 1..Len(kept) |->
            [title |-> kept[i]["web"]["title"], uri |-> kept[i]["web"]["uri"]]]

\* Each pause is longer than the one before and at least twice as long.
IncreasingDoubling(d) ==
    \A i \in 1..(Len(d) - 1) : d[i + 1] > d[i] /\ d[i + 1] >= 2 * d[i]

\* session.post gave up on an endpoint that answered 503 to every request.
Always503 ==
    /\ pc = "handle"
    /\ seen # {}
    /\ \A a \in seen : a.kind = "response" /\ a.status = 503

C2_HttpErrorAfterRetries ==
    ( /\ CallDone
      /\ outcome.kind = "RetryError"
      /\ \A a \in seen : a.kind = "response" /\ a.status \in RetryableSet )
    => /\ result = PyNone
       /\ sources = <<>>
       /\ errors = <<HttpErrorMsg(outcome.status)>>

\* ------------------------------------------------------------------------
\* C3
\* ------------------------------------------------------------------------
\* C3 as stated: a response with a non-2xx status outside the retryable set is
\* never retried, and the call that gets it returns (None, []) with the HTTP
\* error that reports the status.
C3_AnyNon2xx ==
    /\ \A a \in seen :
          a.kind = "response" => Is2xx(a.status) \/ a.status \in RetryableSet
    /\ ( /\ CallDone
         /\ outcome.kind = "response"
         /\ ~Is2xx(outcome.status)
         /\ outcome.status \notin RetryableSet )
       => /\ result = PyNone
          /\ sources = <<>>
          /\ errors = <<HttpErrorMsg(outcome.status)>>

\* A 4xx or 5xx answer outside the retryable set, other than a 413 that carries a
\* Retry-After header.
PlainClientError(a) ==
    /\ a.kind = "response"
    /\ raises_for_status(a.status)
    /\ a.status \notin RetryableSet
    /\ ~(a.status = 413 /\ Len(a.retry_after) > 0)

\* C3 amended: a response with a 4xx or 5xx status outside the retryable set,
\* other than a 413 that carries a Retry-After header, is never retried (one
\* request when it answers the first), and every call that ends with a 4xx or
\* 5xx response returns (None, []) with the HTTP error that reports the
\* status.
C3_ClientError ==
    /\ \A a \in seen : ~PlainClientError(a)
    /\ ( /\ CallDone
         /\ outcome.kind = "response"
         /\ raises_for_status(outcome.status)
         /\ outcome.status \notin RetryableSet )
       => /\ result = PyNone
          /\ sources = <<>>
          /\ errors = <<HttpErrorMsg(outcome.status)>>

\* Witness of C3: a call that ended after one request answered 400.
C3_Witness ==
    /\ CallDone
    /\ outcome.kind = "response"
    /\ outcome.status = 400
    /\ requests = 1
    /\ result = PyNone
    /\ errors = <<HttpErrorMsg(400)>>

\* ------------------------------------------------------------------------
\* C4
\* ------------------------------------------------------------------------
\* C4: no exception leaves challenge_premise; a call either returns what it
\* extracted without an error, or reports one error and returns (None, []).
C4_NeverRaises ==
    /\ ~raised
    /\ CallDone =>
          \/ errors = <<>>
          \/ /\ errors \in {<<HttpErrorMsg(outcome.status)>>, <<UnexpectedErrorMsg>>}
             /\ result = PyNone
             /\ sources = <<>>

\* Witness of C4: a call that read a 2xx body with an empty candidates list
\* (IndexError) and came back with the generic error and (None, []).
C4_Witness ==
    /\ CallDone
    /\ Got2xx
    /\ body.kind = "object"
    /\ "candidates" \in DOMAIN body.data
    /\ Len(body.data["candidates"]) = 0
    /\ errors = <<UnexpectedErrorMsg>>
    /\ result = PyNone
    /\ sources = <<>>

\* ------------------------------------------------------------------------
\* C5
\* ------------------------------------------------------------------------
\* C5: for a 2xx response with a schema-conforming text, challenge_premise
\* returns the parsed result and, in order, one citation for every
\* attribution whose web entry has a title and a uri; the other attributions
\* are skipped without an error.
C5_CitationsSkipIncomplete ==
    ( /\ CallDone
      /\ Got2xx
      /\ body.kind = "object"
      /\ HasText(body.data)
      /\ TextOf(body.data) = FullText )
    => /\ errors = <<>>
       /\ result = PyDict([summary |-> "s", counterArguments |-> <<"c1">>,
                           supportingEvidence |-> <<"e1">>, conclusion |-> "k"])
       /\ sources = ExpectedCitations(AttributionsOf(body.data))

\* ------------------------------------------------------------------------
\* C6
\* ------------------------------------------------------------------------
\* C6: for a 2xx response in which a link of candidates[0].content.parts[0]
\* .text is absent (key missing, or the candidates or parts list empty), the
\* text is taken to be "{}" and challenge_premise returns the empty result
\* object with the extracted citations and no error.  Stated for the bodies
\* whose attributions with a title also have a uri.
C6_AbsentLinkDefaults ==
    ( /\ CallDone
      /\ Got2xx
      /\ body.kind = "object"
      /\ ~HasText(body.data)
      /\ \A i \in 1..Len(AttributionsOf(body.data)) :
            keeps_attr(AttributionsOf(body.data)[i])
                => Complete(AttributionsOf(body.data)[i]) )
    => /\ errors = <<>>
       /\ result = PyDict(EmptyObj)
       /\ sources = ExpectedCitations(AttributionsOf(body.data))

\* ------------------------------------------------------------------------
\* C7
\* ------------------------------------------------------------------------
\* C7: when the text of a 2xx response is not valid JSON, the step that reads
\* it ends the call with (None, []) and the generic error, without raising
\* and without another request.
C7_MalformedTextNotRetried ==
    [][ ( /\ pc = "handle"
          /\ Got2xx
          /\ body'.kind = "object"
          /\ HasText(body'.data)
          /\ TextOf(body'.data) = "not json" )
        => /\ pc' = "idle"
           /\ requests' = requests
           /\ result' = PyNone
           /\ sources' = <<>>
           /\ errors' = <<UnexpectedErrorMsg>>
           /\ ~raised' ]_vars

\* Witness of C7: a call whose second request was answered 200 with a text
\* that is not JSON.
C7_Witness ==
    /\ CallDone
    /\ Got2xx
    /\ body.kind = "object"
    /\ HasText(body.data)
    /\ TextOf(body.data) = "not json"
    /\ requests = 2
    /\ result = PyNone
    /\ errors = <<UnexpectedErrorMsg>>

\* ------------------------------------------------------------------------
\* C8
\* ------------------------------------------------------------------------
\* C8: a button press with an empty premise sends no request, does not call
\* challenge_premise, leaves the cache as it was and shows only the warning.
C8_EmptyPremiseWarnsOnly ==
    [][ (pc = "idle" /\ button' /\ premise' = "")
        => /\ pc' = "idle"
           /\ requests' = 0
           /\ ~called'
           /\ cache' = cache
           /\ shown' = <<WarningMsg>> ]_vars

\* Witness of C8: the warning is on the page while the cache still holds the
\* entry of an earlier call.
C8_Witness ==
    /\ pc = "idle"
    /\ button
    /\ premise = ""
    /\ shown = <<WarningMsg>>
    /\ requests = 0
    /\ DOMAIN cache # {}

\* ------------------------------------------------------------------------
\* C9
\* ------------------------------------------------------------------------
\* C9: every button press with a premise runs challenge_premise on an empty
\* cache, so it sends at least one request and never shows a cached result,
\* also when the cache held an entry for the same premise.
C9_FreshCallPerTrigger ==
    (button /\ premise # "")
    => /\ called
       /\ pc # "idle" => cache = EmptyObj
       /\ pc = "idle" => requests >= 1

\* Witness of C9: a finished press whose clear dropped the entry of an
\* earlier call with the same premise.
C9_Witness ==
    /\ CallDone
    /\ premise = "p"
    /\ "p" \in cleared
    /\ requests >= 1

\* ------------------------------------------------------------------------
\* C10
\* ------------------------------------------------------------------------
\* C10: every button press ends with something on the page; when
\* challenge_premise returns a result object without an error, also one with
\* all fields absent, the page shows the analysis sections with their
\* placeholder texts.
C10_SomethingShown ==
    (pc = "idle" /\ button)
    => /\ Len(shown) > 0
       /\ (called /\ errors = <<>> /\ ~raised /\ result.py = "dict")
             => shown = render_analysis(result.d, sources)

====
